SPECIFICATION Spec
PROPERTIES RequestsEnd DeskCatchesUp PageFollowsControls
CHECK_DEADLOCK FALSE
