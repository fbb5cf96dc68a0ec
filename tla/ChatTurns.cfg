SPECIFICATION Spec
CONSTANTS
    None = None  a = a  b = b  p = p  x = x
    Runs = {a, b, p}
    Kind <- KindOfThree
    Answers = {x}
    MaxAsks = 2
    Closes = FALSE
INVARIANTS QuestionsCanBeAnswered ApiRunsStayCancellable AnswersAreFresh
CHECK_DEADLOCK FALSE
