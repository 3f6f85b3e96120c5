------------------------------- MODULE NdnName -------------------------------
(***************************************************************************)
(* NDN names as sequences of components and the two comparisons the        *)
(* forwarder uses: Name::equals (plain equality of sequences) and          *)
(* Name::match (component-wise prefix), plus Interest::matchesData.        *)
(* Name and Interest are classes of the packet library, not under src/;    *)
(* they are modelled from the spec (section 3 and 4.4).                    *)
(***************************************************************************)
LOCAL INSTANCE SequencesExt

\* Name::match(name): this prefix is a component-wise prefix of name.
NameMatch(prefix, name) == IsPrefix(prefix, name)

\* Interest::matchesData(data) without selectors: the Interest name is a
\* prefix of the Data name.
MatchesData(interestName, dataName) == IsPrefix(interestName, dataName)

=============================================================================
