SPECIFICATION SpecDos
CONSTANTS
    na = na
    nb = nb
    c1 = c1
    c2 = c2
    TB = 2
    P = 2
    PB = 2
    Datos = {1, 2}
    Clientes = {c1, c2}
    Entradas = 2
    Nombres = {na, nb}
    Nadie = Nadie
    Pedidos <- PedidosDos
    Raras = {}
    MaxTam = 6
    MaxEco = 2
    MaxPedidos = 3
PROPERTIES
    SoloTruncarRetiene
    
CHECK_DEADLOCK FALSE
