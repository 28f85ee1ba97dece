SPECIFICATION Spec
INVARIANT ProxyCredentialsConsistent
