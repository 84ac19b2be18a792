----------------------------- MODULE MCLightSSS -----------------------------
EXTENDS LightSSS

\* Every way to end, before, at and after the third snapshot.
MCFates == [at : {1, 4, 6, 7}, how : {"good", "bad", "stuck", "mismatch"}]
=============================================================================
