CONSTANTS
    p1 = p1
    p2 = p2
    p3 = p3
    bad = bad
    t1 = t1
    t2 = t2
    None = None
    Payload = {p1, p2, p3, bad}
    Parsable = {p1, p2, p3}
    Thread = {t1, t2}
SPECIFICATION FairSpec
INVARIANTS TypeOK Conservation QueueInOrder OvertakingBounded
PROPERTIES ImplementsLogQueue EveryPayloadSettles
