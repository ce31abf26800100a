\* Three rows at most at the start, pages of one or two, one foreign write;
\* requests up to two fields away from one that is served, a leeway of one.
\* The calls are made once: the program stops after them.
SPECIFICATION MCSpec
CONSTANTS
    Mine = {4, 5}
    Others = {6}
    Matching = {1, 3, 5, 6}
    MAX_ATTEMPTS = 3
    MaxRows = 3
    MaxPage = 2
    MaxWrites = 1
    Cases <- Requests
    Skew = 1
CHECK_DEADLOCK FALSE
INVARIANTS
    OneRowPerWrite
    WriteIsTruthful
    
    GuardsAgree
PROPERTIES
    WalkEnds
