---------------------------- MODULE MCGrpcErrors ----------------------------
\* Every negative status down to below the lowest one the switch names, and
\* server statuses 0..40 (the codes the server reports lie in this range).
EXTENDS GrpcErrors

MCStatuses == -20..40

=============================================================================
