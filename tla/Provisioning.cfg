SPECIFICATION MCSpec
CONSTANTS
    w1 = w1
    w2 = w2
    w3 = w3
    here = here
    there = there
    r1 = r1
    r2 = r2
    u0 = u0
    u1 = u1
    u2 = u2
    u3 = u3
    u4 = u4
    Writers = {w1, w2, w3}
    Exclusive = TRUE
    FaultSets <- MCFaultSets
    Paths = {here, there}
    Interfaces <- MCInterfaces
    Devices = {u0, u1, u2, u3, u4}
    Installed <- InThisOrder
    Registries = {r1, r2}
    Edits = 2
INVARIANTS
  TypesOK
  WritersTellTheTruth
  WhatIsBoundWasSound
CHECK_DEADLOCK FALSE
