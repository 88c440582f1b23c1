SPECIFICATION Spec
CONSTANTS
    None = None
    Events <- SomeEvents
    MaxEvents = 2
    Queries <- AllQueries
    Hours <- HourLengths
    RowCount <- RowCounts
INVARIANTS
    TypeOK
    AnswerKeptWhereSound
    RewriteSettles
