SPECIFICATION Spec
INVARIANT RelativeInvertsJoin
