\* One client, two identities, batches of two rows.
SPECIFICATION FairStreamSpec
CONSTANTS
    Identity = {alice, bob}
    Connection = {c1}
    Nobody = Nobody
    Limit = 2
    MaxPropagations = 5
INVARIANTS
    StreamTypeOK
    InOrderWithoutGaps
PROPERTY EveryRowIsPushed
