----------------------------- MODULE MCReadPath -----------------------------
EXTENDS ReadPath

MCDLines == {3}
MCILines == {7}
MCABases == {11}

\* Bound: once the slave has answered a retry with an abandoned burst it
\* forgets the bursts abandoned later.
OneLateBurst == late /\ Len(s_owed') > Len(s_owed) => s_owed = <<>>
=============================================================================
