SPECIFICATION Spec
PROPERTIES StreamEndsWell EachListenerOnce  
CHECK_DEADLOCK FALSE
