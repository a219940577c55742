SPECIFICATION LiveSpec
CONSTANT Trees <- MCTrees
INVARIANTS NodeIsCursor RowsAreTheTree AnswerHasTheRange
PROPERTIES RowsNeverChange WalkEnds
