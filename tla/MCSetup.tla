------------------------------ MODULE MCSetup ------------------------------
\* A small instance of Setup.
EXTENDS Setup

CONSTANTS m1, m2

\* A document with one model, still at the legacy place: the first write of
\* any program makes the settings file.
Doc == Document([f \in Fields |-> IF f = Autocompact THEN Unset ELSE m1])
MCFirst == {<<Missing, Doc>>}
MCFiles == {Malformed, Document(Defaults)}
\* A fresh and a stale list that name different models.
MCEntries == {Listing({m1}, TRUE), Listing({m2}, FALSE)}
============================================================================
