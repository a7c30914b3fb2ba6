SPECIFICATION Spec
CONSTANTS
    NMarcos = 9
    PAG = 4
    NSwap = 3
    NSlots = 1
    Valores = {"x"}
    Tams = {4}
    Mapean = {}
    MaxPedidos = 10
PROPERTIES
    LoEscritoSeLee
CHECK_DEADLOCK FALSE
