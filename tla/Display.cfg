SPECIFICATION Spec
CONSTANTS
    Screens <- Glasses
    PANEL_WIDTH = 12
    PANEL_PAGES = 2
    NARROW = 8
    NARROW_OFFSET = 4
    font <- SmallFont
    Glyphs <- Letters
    Lines <- Strokes
    Boxes <- Corners
    Texts <- Words
    Images <- Pictures
    Cuts = {5}
    Losses = {0, 1, 6}
    MaxCalls = 1

    
    
PROPERTIES
    LineReachesBothEnds
