SPECIFICATION Spec
PROPERTIES WordsAreExact CorrectlyRounded NaNsPropagate
