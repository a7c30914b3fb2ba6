SPECIFICATION SpecLinuse
CONSTANTS
    p1 = p1
    p2 = p2
    s1 = s1
    Pids = {p1, p2}
    Tids = {0, 1}
    Sems = {s1}
    SemInit <- SemInit0
    SemMax <- SemMax1
    Grado = 2
    Ancho = 1
    Estimaciones = {0}
    TimerMetricas = TRUE
    Nadie = Nadie
    Ninguna = Ninguna
    MaxUlts = 2
    Matables = {p1}
INVARIANTS
    UnaSolaEspera
    NadieSePierde
    NoUsoTrasLiberar
    
CHECK_DEADLOCK FALSE
