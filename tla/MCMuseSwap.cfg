SPECIFICATION Spec
CONSTANTS
    NMarcos = 3
    PAG = 4
    NSwap = 3
    NSlots = 2
    Valores = {"x"}
    Tams = {1, 6}
    Mapean = {0}
    MaxPedidos = 11
INVARIANTS
    TypeOK
    
    UsadosTomados
    RelojElige
PROPERTIES
    SoloCrearComparte
CHECK_DEADLOCK FALSE
