SPECIFICATION SpecSistema
CONSTANTS
    na = na
    nb = nb
    c1 = c1
    TB = 2
    P = 2
    PB = 2
    Datos = {1, 2, 3, 4, 5, 6}
    Clientes = {c1}
    Entradas = 3
    Nombres = {na, nb}
    Nadie = Nadie
    Pedidos <- PedidosArbol
    Raras = {}
    MaxTam = 6
    MaxEco = 0
VIEW VistaArbol
INVARIANTS
    SinHuerfanos
PROPERTIES
    ImplementaArbol
CHECK_DEADLOCK FALSE
