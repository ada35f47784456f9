CONSTANT Words = {0, 1}
SPECIFICATION Spec
INVARIANT ReleaseReversesRequest
