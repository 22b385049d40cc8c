SPECIFICATION Spec
CONSTANTS
    Screens <- Glasses
    PANEL_WIDTH = 12
    PANEL_PAGES = 2
    NARROW = 8
    NARROW_OFFSET = 4
    font <- SmallFont
    Glyphs <- Letters
    Lines <- Leftward
    Boxes <- Corners
    Texts <- Words
    Images <- Pictures
    Cuts = {}
    Losses = {0}
    MaxCalls = 1
PROPERTIES
    LineReachesBothEnds
