SPECIFICATION Spec
CONSTANTS
    fact = fact
    rollup = rollup
    view = view
    daily = daily
    rolled = rolled
    jan = jan
    feb = feb
    difference = difference
    None = None
    Nodes = {n1}
    Readers = {r1}
    Writers = {w1}
    Tables = {fact, rollup}
    Names = {fact, rollup, view}
    Shapes = {daily, rolled}
    Lits = {jan, feb, difference}
    NamesOf <- MCNamesOf
    ReadsOf <- MCReadsOf
    Rewrite <- MCRewrite
    Special = {rolled}
    Texts <- MCTexts
    MaxChanges = 1
INVARIANTS
    TypeOK
    AnswersOwnQuestion
    AnswersCurrent
    AnswersKeepForm
