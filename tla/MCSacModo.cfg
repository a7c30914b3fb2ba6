SPECIFICATION SpecDos
CONSTANTS
    na = na
    nb = nb
    c1 = c1
    c2 = c2
    TB = 2
    P = 2
    PB = 2
    Datos = {1, 2, 3, 4}
    Clientes = {c1, c2}
    Entradas = 2
    Nombres = {na, nb}
    Nadie = Nadie
    Pedidos <- PedidosModo
    Raras = {}
    MaxTam = 6
    MaxEco = 2
    MaxPedidos = 3
PROPERTIES
    TruncarDejaUno
CHECK_DEADLOCK FALSE
