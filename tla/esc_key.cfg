SPECIFICATION KeyboardSpec
CONSTANT Keys = {"space", "a", "d", "q", "escape"}
PROPERTY EscQuits
