SPECIFICATION Spec
INVARIANT NoServerError
