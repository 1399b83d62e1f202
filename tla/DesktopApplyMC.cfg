\* One caller; an apply() that fails is called again.
CONSTANTS
    Clients = {c1}
    Slots = {1, 2}
    Mortal = {}
    Profiles <- TwoProfiles
    None = None
SPECIFICATION Spec
PROPERTIES AffectedAreRestarted
