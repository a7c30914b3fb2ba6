SPECIFICATION SpecLinuse
CONSTANTS
    p1 = p1
    p2 = p2
    s1 = s1
    Pids = {p1, p2}
    Tids = {0, 1}
    Sems = {s1}
    SemInit <- SemInit0
    SemMax <- SemMax1
    Grado = 2
    Ancho = 1
    Estimaciones = {0, 1}
    TimerMetricas = FALSE
    Nadie = Nadie
    Ninguna = Ninguna
    MaxUlts = 2
    Matables = {}
SYMMETRY Simetria
INVARIANTS
    TypeOK
    Bitacora
    SemaforoCorrecto
    ContadoresAlDia
    MultiprogramacionExacta
    DespertarUtil
    MarcaFresca
    
    BloqueadoNoCorre
    
PROPERTIES
    ImplementaEstados
CHECK_DEADLOCK FALSE
