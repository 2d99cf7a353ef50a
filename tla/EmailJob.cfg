CONSTANTS
    e1 = e1
    e2 = e2
    u1 = u1
    u2 = u2
    w1 = w1
    w2 = w2
    mailer = mailer
    Mails <- OneMail
    Recipients <- TwoRecipients
    Mailer = mailer
    Workers <- TwoWorkers
    MaxFaults = 1
    MaxDeaths = 1
SPECIFICATION Spec
INVARIANTS OneRun LogIsTrue
PROPERTIES KeepsPromise EmailsMoveOn
CHECK_DEADLOCK FALSE
