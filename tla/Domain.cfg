SPECIFICATION FairSpec
CONSTANTS
    a = a
    b = b
    None = None
    p1 = p1
    p2 = p2
    g1 = g1
    g2 = g2
    Tasks = {a, b}
    Setups <- MCSetups
    MaxPriority = 2
    NumThreads = 2
    Active = {0}
    Putters = {p1, p2}
    Getters = {g1, g2}
    MaxQueues = 1
    CountMod = 16
INVARIANTS DomainConsistent TopCoversQueued
PROPERTY PutIsTaken
