CONSTANT MaxLines = 5
SPECIFICATION Spec
INVARIANT RejectsBrokenCertificate
