SPECIFICATION ProcSpec
CONSTANT Pid = {1, 2}
PROPERTY TrueMeansChild
