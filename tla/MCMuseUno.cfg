SPECIFICATION SpecJusta
CONSTANTS
    NMarcos = 22
    PAG = 4
    NSwap = 2
    NSlots = 1
    Valores = {"x", "y"}
    Tams = {2, 6}
    Mapean = {}
    MaxPedidos = 9
INVARIANTS
    Encadenado
    NoCae
PROPERTIES
    ImplementaMemoria
    Contesta
CHECK_DEADLOCK FALSE
