CONSTANTS
    Users = {u1}
    Teams = {t1, t2}
    Nobody = nobody
    Nowhere = nowhere
    Connects = {c1, c2}
    Deliveries = {d1}
    Budgets <- MCBudgets
    Faults = {"crash", "slack"}
SPECIFICATION SlackFairSpec
INVARIANTS
    LinksStandAlone
PROPERTIES
    KeptUnless
    Settles
