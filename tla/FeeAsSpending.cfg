SPECIFICATION Spec
CONSTANTS
    food = food
    fun = fun
    mortgage = mortgage
    shop = shop
    g1 = g1
    page = page
    home = home
    employer = employer
    transfer = transfer
    principalWord = principalWord
    interestWord = interestWord
    overdraft = overdraft
    mixed = mixed
    fee = fee
    loan7 = loan7
    totalWord = totalWord
    opening = opening
    acc = acc
    gone = gone
    visa = visa
    master = master
    plan = plan
    p1 = p1
    p2 = p2
    p3 = p3
    p4 = p4
    None = None
    Situations <- FiveSituations
    Readers = {page, home}
    Locked = {home}
    MaxAlerts = 3
    MaxMonths = 2
    MaxNews = 1
INVARIANTS
    OrdinarySpending
CHECK_DEADLOCK FALSE
