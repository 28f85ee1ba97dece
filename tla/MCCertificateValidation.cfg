CONSTANT MaxLines = 5
SPECIFICATION Spec
INVARIANTS TypeOK ReturnsExactlyTheCertificates
