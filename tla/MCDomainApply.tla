--------------------------- MODULE MCDomainApply ---------------------------
\* Instances of DomainApply: a required column, an immutable unique one, and
\* those that may be NULL: a Nillable() and a JSON one, or an Optional() one.
EXTENDS DomainApply

AccountKind == [name |-> "plain", username |-> "plain", bio |-> "nillable", settings |-> "json"]
AccountColumns == DOMAIN AccountKind
UserKind == [name |-> "plain", username |-> "plain", bio |-> "optional", nick |-> "nillable"]
UserColumns == DOMAIN UserKind

\* Option lists: none; OnlyFields("name") of README.md:771; OnlyFields("bio")
\* with AppendEdge; OmitZeroVal and OmitNil; OmitFields("name").
NameOnly == OnlyFields(NoConfig, {"name"})
BioOnlyAppend == AppendEdge(OnlyFields(NoConfig, {"bio"}), "tags")
OmitEmpty == OmitNil(OmitZeroVal(NoConfig))
OmitName == OmitFields(NoConfig, {"name"})
AccountConfigs == {NoConfig, NameOnly, BioOnlyAppend, OmitEmpty}
UserConfigs == {NoConfig, NameOnly, BioOnlyAppend, OmitName}
=============================================================================
