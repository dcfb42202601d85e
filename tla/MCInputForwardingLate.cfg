SPECIFICATION Spec
PROPERTIES
    SinglePressKeepsStream
