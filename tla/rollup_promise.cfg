SPECIFICATION Spec
CONSTANTS
    None = None
    Events <- SomeEvents
    MaxEvents = 2
    Queries <- DailyQueries
    Hours <- HourLengths
    RowCount <- RowCounts
INVARIANTS
    RewriteKeepsAnswer
