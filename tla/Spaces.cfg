CONSTANTS
    ann = ann
    bob = bob
    cyd = cyd
    atBob = atBob
    atCyd = atCyd
    bot = bot
    NoEmail = NoEmail
    User = {ann, bob, cyd}
    Creator = ann
    Email = {atBob, atCyd}
    Holder <- MCHolder
    Agent = {bot}
    OwnerOf <- MCOwnerOf
SPECIFICATION Spec
INVARIANT OneOwner
PROPERTY PowerComesFromOwner
