CONSTANTS MaxCoros = 2
          Files = 3
          Values = {1, 2}
          MaxLength = 5
          MaxTotal = 7
SPECIFICATION SortSpec
INVARIANTS BlocksSorted EveryFileReadOnce OutputIsSortedUnion ReportExact
 
CHECK_DEADLOCK FALSE
