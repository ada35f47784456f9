CONSTANTS
    NumDesc = 4
    Budget = 2
    Wrap = 8
    Frames = {"good", "error", "over"}
    Races = {}
SPECIFICATION Spec
PROPERTY FramesTaken
