----------------------------- MODULE MCRWMutex -----------------------------
(* Instances of RWMutex for TLC *)
EXTENDS RWMutex, TLC

CONSTANTS t1, t2, t3, t4

Three == {t1, t2, t3}
Four == {t1, t2, t3, t4}
CVs == {m_cv_readers, m_cv_writers}
=============================================================================
