SPECIFICATION Spec
INVARIANT RelativePathIsRest
