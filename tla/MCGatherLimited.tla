---------------------------- MODULE MCGatherLimited ----------------------------
\* Up to five items under every limit from none to more than there are items.
EXTENDS GatherLimited

MCLimits == 0..6
================================================================================
