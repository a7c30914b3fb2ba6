SPECIFICATION FairSpec
CONSTANTS
    a1 = a1
    a2 = a2
    Agendas = {a1}
    ConJoin = FALSE
    Libre = Libre
INVARIANTS
    DuenoCorrecto
    SinInterbloqueo

    
CHECK_DEADLOCK FALSE
