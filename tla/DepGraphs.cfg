SPECIFICATION Spec
CONSTANT Programs <- SmallPrograms
INVARIANTS ComponentsRight DomainsAreStratified AtomsReachAll
