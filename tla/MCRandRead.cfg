\* Expected violation.  Buffer lengths: empty, shorter than a word, one word,
\* two words and more than 64 bytes.  A panic ends the goroutine, so a
\* state with no successor is not an error of the model.
CONSTANTS
    Lens = {0, 7, 8, 16, 80}
SPECIFICATION Spec
CHECK_DEADLOCK FALSE
PROPERTY ReadReturnsFilled
