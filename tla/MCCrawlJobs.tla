----------------------------- MODULE MCCrawlJobs -----------------------------
(* CrawlJobs on small sets of model values, for TLC. *)
EXTENDS CrawlJobs, TLC

\* Identities of jobs and of sources are interchangeable: safety runs only.
Symmetry == Permutations(Jobs) \cup Permutations(Sources)
=============================================================================
