SPECIFICATION FairSpec
CONSTANTS
    first = first
    again = again
    later = later
    other = other
    forged = forged
    alice = alice
    bob = bob
    Delivery = {first, again, later, other, forged}
    Address = {alice, bob}
    Genuine = {first, again, later, other}
    MaxNonce = 2
    AddressOf <- MCAddressOf
    NonceOf <- MCNonceOf
    MaxCrashes = 1
    MaxFaults = 1
INVARIANTS TypeOK EffectOnce
PROPERTIES DecidedOnCurrentRow EveryDeliveryDecided
