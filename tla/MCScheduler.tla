---------------------------- MODULE MCScheduler ----------------------------
\* Instances of Scheduler for TLC.
EXTENDS Scheduler

AnyMethod == AllMethods

===========================================================================
