\* An agent that comes back for less than a probe's interval.
SPECIFICATION Spec
CONSTANTS
    DownAfter = 2
    MaxProbes = 1
    MaxFinishes = 2
PROPERTIES
    OutageShows
