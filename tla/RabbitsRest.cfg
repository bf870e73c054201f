\* One child, which nobody stops: its death is reported and never counted.
CONSTANTS
    NumChildren = 1
    MaxStops = 0
SPECIFICATION FairSpec
PROPERTY DeathsAreCounted
