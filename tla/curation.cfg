SPECIFICATION Spec
CONSTANTS
    A = A
    B = B
    M = M
    a = a
    b = b
    c = c
    x = x
    y = y
    panel = panel
    app = app
    agent = agent
    None = none
    Claims = {A, B, M}
    Entities = {a, b, c, x, y}
    Names <- NamesOf
    Proposals = {1, 2, 3, 4, 5, 6, 7, 8, 9, 10, 11}
    Ask <- Questions
    Callers = {panel, app, agent}
    SurfaceOf <- SurfacesOf
    Again <- AgainOf
    Agendas <- AllAgendas

INVARIANTS
    TypeOK
    RowsFollowTheLog
    ConfirmedByAPerson
    AskedOnce
    ForwardingEnds
    DiffIsEffect
PROPERTIES
    MergedIsFinal
    SettleTakesEffect
    LocalMergeCommits

CHECK_DEADLOCK FALSE
