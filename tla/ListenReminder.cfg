CONSTANTS
    ada = ada
    bob = bob
    old = old
    new = new
    Users <- Everybody
    Processes <- Two
    Concurrency = 1
    Week = 2
    MaxLag = 1
    Worlds <- MCWorlds
    Faults = {"crash", "database", "slack"}
SPECIFICATION FairSpec
PROPERTIES
    SweepsWithinTheWeek
    NobodyForgotten
