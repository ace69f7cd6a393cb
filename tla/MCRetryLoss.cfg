SPECIFICATION Spec
CONSTANTS
    None = None
    feed = feed
    notification = notification
    m1 = m1
    m2 = m2
    Queues = {feed, notification}
    Consumers = {f1}
    QueueOf <- MCQueueOf
    Msgs = {m1, m2}
    Key <- MCKey
    EventBindings <- MCEventBindings
    MaxRetries = 1
    Delays = 1
    ConfirmBuffer = 1
    MaxFaults = 2
INVARIANT
    NothingLost
