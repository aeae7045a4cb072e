SPECIFICATION Spec
CONSTANTS
    Pages = 2
    Img = {old, new}
    old = old
    new = new
    Factory = old
    Torn = Torn
    MaxResets = 0
    MaxErrors = 0
    None = None
PROPERTIES
    ConfirmsFreshImage
